---- MODULE Spec2Model ----
(***************************************************************************)
(* Model of main.py: restricted_eval (regex substitution of variable       *)
(* names followed by eval() in a filtered namespace) and                   *)
(* get_scale_and_position_as_function_of_pygame_surface_dimensions.        *)
(*                                                                         *)
(* A Python str is a sequence of one-character strings.  A Python dict is  *)
(* a sequence of <<key, value>> pairs with distinct keys, in insertion     *)
(* (iteration) order.  A Python object is a record                         *)
(*   [kind, n, d, s]: kind "int"/"float" is the number n/d (d > 0, lowest  *)
(*   terms); kind "builtin", "module", "str" carry their name or text in   *)
(*   s; kind "tuple" is the empty tuple; kind "real" is a number the       *)
(*   model does not represent (numerator or denominator beyond MaxAbs, or  *)
(*   irrational).  Floats are exact rationals: binary rounding is not      *)
(*   modelled.                                                             *)
(***************************************************************************)
EXTENDS Integers, Sequences, FiniteSets, TLC

VARIABLES pc,            \* position of the program
          args,          \* the arguments the caller passed to restricted_eval
          expression,    \* restricted_eval: the local `expression`
          variables,     \* the dict `variables`
          result,        \* restricted_eval: the value returned
          stdout,        \* the diagnostics printed so far
          surface,       \* <<width, height>> of the surface
          surface_name,
          funcs,         \* the four expressions passed to the placement call
          x_scale, y_scale, x, y,
          evaluated,     \* the calls of restricted_eval made so far
          ret            \* the tuple returned by the placement call

vars == <<pc, args, expression, variables, result, stdout, surface,
          surface_name, funcs, x_scale, y_scale, x, y, evaluated, ret>>

(***************************************************************************)
(* Bounds of the model.                                                    *)
(***************************************************************************)
MaxPieces == 3

MaxAbs == 30000

(***************************************************************************)
(* Characters.                                                             *)
(***************************************************************************)
Digits == <<"0", "1", "2", "3", "4", "5", "6", "7", "8", "9">>

DigitSet == {Digits[i] : i \in 1..10}

Letters == {"a", "b", "c", "d", "e", "f", "g", "h", "i", "j", "k", "l", "m",
            "n", "o", "p", "q", "r", "s", "t", "u", "v", "w", "x", "y", "z"}

\* \w of the re module: letters, digits and the underscore
IsWord(c) == c \in Letters \cup DigitSet \cup {"_"}

DigitVal(c) == CHOOSE i \in 0..9 : Digits[i + 1] = c

Abs(i) == IF i < 0 THEN -i ELSE i

RECURSIVE Gcd(_, _)
Gcd(p, q) == IF q = 0 THEN p ELSE Gcd(q, p % q)

(***************************************************************************)
(* Python objects.                                                         *)
(***************************************************************************)
PyInt(i) == [kind |-> "int", n |-> i, d |-> 1, s |-> <<>>]

Obj(k, name) == [kind |-> k, n |-> 0, d |-> 1, s |-> name]

Unrep == Obj("real", <<>>)

None == Obj("None", <<>>)

IsNum(v) == v.kind \in {"int", "float"}

\* a float n/d in lowest terms with positive denominator
PyFloat(p, q) ==
    LET g == Gcd(Abs(p), Abs(q))
        sgn == IF q < 0 THEN -1 ELSE 1
    IN  IF Abs(p) \div g > MaxAbs \/ Abs(q) \div g > MaxAbs THEN Unrep
        ELSE [kind |-> "float", n |-> sgn * (p \div g), d |-> Abs(q) \div g,
              s |-> <<>>]

(***************************************************************************)
(* str(value), main.py line 36.                                            *)
(***************************************************************************)
RECURSIVE NatStr(_)
NatStr(i) == IF i < 10 THEN <<Digits[i + 1]>>
             ELSE NatStr(i \div 10) \o <<Digits[(i % 10) + 1]>>

IntStr(i) == IF i < 0 THEN <<"-">> \o NatStr(-i) ELSE NatStr(i)

\* the decimal digits of r/q, 0 <= r < q, q = 2^i * 5^j
RECURSIVE FracStr(_, _)
FracStr(r, q) == IF r = 0 THEN <<>>
                 ELSE <<Digits[((10 * r) \div q) + 1]>> \o FracStr((10 * r) % q, q)

BuiltinRepr(name) ==
    <<"<", "b", "u", "i", "l", "t", "-", "i", "n", " ",
      "f", "u", "n", "c", "t", "i", "o", "n", " ">> \o name \o <<">">>

\* q with its factors 2 and 5 removed: 1 iff p/q has a finite expansion
RECURSIVE OddPart(_)
OddPart(q) == IF q % 2 = 0 THEN OddPart(q \div 2)
              ELSE IF q % 5 = 0 THEN OddPart(q \div 5) ELSE q

\* repr of a float is its decimal expansion when that is finite and short
\* and the magnitude is in [1e-4, 1e16); str is modelled for these floats,
\* for int and for builtin functions
Str(v) ==
    CASE v.kind = "int"     -> IntStr(v.n)
      [] v.kind = "float" /\ OddPart(v.d) = 1 ->
            LET a == Abs(v.n)
                frac == FracStr(a % v.d, v.d)
            IN  (IF v.n < 0 THEN <<"-">> ELSE <<>>) \o NatStr(a \div v.d)
                \o <<".">> \o (IF frac = <<>> THEN <<"0">> ELSE frac)
      [] v.kind = "builtin" -> BuiltinRepr(v.s)

(***************************************************************************)
(* The dict `variables`.                                                   *)
(***************************************************************************)
Keys(vs) == [i \in 1..Len(vs) |-> vs[i][1]]

HasKey(vs, k) == \E i \in 1..Len(vs) : vs[i][1] = k

Lookup(vs, k) == vs[CHOOSE i \in 1..Len(vs) : vs[i][1] = k][2]

\* variables[k] = v  (main.py lines 110-111): overwrite in place or append
SetItem(vs, k, v) ==
    IF HasKey(vs, k)
    THEN [i \in 1..Len(vs) |-> IF vs[i][1] = k THEN <<k, v>> ELSE vs[i]]
    ELSE Append(vs, <<k, v>>)

(***************************************************************************)
(* pattern = re.compile(r"\b(" + "|".join(keys) + r")\b"), lines 30-32.    *)
(* The alternatives are the keys in iteration order; joining no keys       *)
(* leaves the single empty alternative.                                    *)
(***************************************************************************)
Alternatives(vs) == IF vs = <<>> THEN << <<>> >> ELSE Keys(vs)

\* \b at offset i of str (i characters lie to the left)
IsBoundary(str, i) ==
    LET left  == i >= 1 /\ IsWord(str[i])
        right == i < Len(str) /\ IsWord(str[i + 1])
    IN  left # right

StartsWithAt(str, i, k) ==
    /\ i + Len(k) <= Len(str)
    /\ \A j \in 1..Len(k) : str[i + j] = k[j]

\* mutant: the pattern without its closing \b
AltMatches_NoClosingBoundary(str, i, k) == StartsWithAt(str, i, k)

\* mutant: the closing \b required of the longer keys only
AltMatches_ShortKeyUnbounded(str, i, k) ==
    StartsWithAt(str, i, k) /\ (Len(k) > 1 => IsBoundary(str, i + Len(k)))

\* the alternative tried at offset i succeeds when it matches the text and
\* the closing \b holds; the regex engine backtracks into the next one
AltMatches(str, i, k) == StartsWithAt(str, i, k) /\ IsBoundary(str, i + Len(k))

\* index of the first alternative that matches at offset i, 0 if none
MatchAt(str, i, alts) ==
    IF ~IsBoundary(str, i) THEN 0
    ELSE LET ok == {a \in 1..Len(alts) : AltMatches(str, i, alts[a])}
         IN  IF ok = {} THEN 0 ELSE CHOOSE a \in ok : \A b \in ok : a <= b

(***************************************************************************)
(* expression = pattern.sub(replace_var, expression), lines 35-38.         *)
(* replace_var looks the matched text up in the dict: a match of the empty *)
(* alternative raises KeyError('') out of restricted_eval.                 *)
(***************************************************************************)
RECURSIVE SubFrom(_, _, _)
SubRest(head, rest) ==
    [raised |-> rest.raised, text |-> head \o rest.text]

\* the substitution from offset i on, a the alternative matching there
SubMatch(str, i, vs, alts, a) ==
    IF a = 0
    THEN IF i = Len(str) THEN [raised |-> FALSE, text |-> <<>>]
         ELSE SubRest(<<str[i + 1]>>, SubFrom(str, i + 1, vs))
    ELSE IF ~HasKey(vs, alts[a])
         THEN [raised |-> TRUE, text |-> <<>>]
         ELSE SubRest(Str(Lookup(vs, alts[a])),
                      SubFrom(str, i + Len(alts[a]), vs))

SubFrom(str, i, vs) ==
    IF i > Len(str) THEN [raised |-> FALSE, text |-> <<>>]
    ELSE SubMatch(str, i, vs, Alternatives(vs),
                  MatchAt(str, i, Alternatives(vs)))

Sub(str, vs) == SubFrom(str, 0, vs)

(***************************************************************************)
(* eval(expression, safe_env, {}), line 55: the tokenizer.                 *)
(* A token is [t, s, v]: t is "num", "name", "str", "op" or "bad"; s is    *)
(* the name, the text of the string or the operator; v the literal's       *)
(* value.  The literal grammar covers decimal integers and point floats    *)
(* (no exponent, radix prefix or imaginary suffix); the operators are      *)
(* ** * // / + - ( ) and the attribute dot.  Any other character gives a   *)
(* "bad" token, which the parser rejects.  The tokenizer reads one         *)
(* character at a time; `cur` is the lexeme being read, [t, s] with t = "" *)
(* between lexemes.                                                        *)
(***************************************************************************)
Tok(t, s, v) == [t |-> t, s |-> s, v |-> v]

BadTok == Tok("bad", <<>>, None)

CharAt(str, i) == IF i >= 1 /\ i <= Len(str) THEN str[i] ELSE ""

IsDigit(c) == c \in DigitSet

Slice(str, i, j) == [k \in 1..(j - i + 1) |-> str[i + k - 1]]

\* the last index of the run of word characters that starts at i
RECURSIVE WordEnd(_, _)
WordEnd(str, i) == IF IsWord(CharAt(str, i + 1)) THEN WordEnd(str, i + 1) ELSE i

RECURSIVE Pow10(_)
Pow10(k) == IF k = 0 THEN 1 ELSE 10 * Pow10(k - 1)

\* the value of a digit string, or -1 when it leaves the model's range
RECURSIVE DigitsVal(_)
DigitsVal(ds) ==
    IF ds = <<>> THEN 0
    ELSE LET h == DigitsVal(SubSeq(ds, 1, Len(ds) - 1))
         IN  IF h < 0 \/ h > MaxAbs THEN -1
             ELSE 10 * h + DigitVal(ds[Len(ds)])

NotUnderscore(c) == c # "_"

\* the token of a number lexeme: digits with single "_" between digits,
\* then optionally "." and more digits; a lexeme that runs into letters, a
\* misplaced "_" or a nonzero integer with a leading zero is no literal
NumShape(text, ipart, fpart) ==
    /\ \A k \in 1..Len(text) : IsDigit(text[k]) \/ text[k] \in {"_", "."}
    /\ \A k \in 1..Len(text) : text[k] = "_" =>
            IsDigit(CharAt(text, k - 1)) /\ IsDigit(CharAt(text, k + 1))
    /\ Len(ipart) + Len(fpart) > 0

\* the literal with integer digits ipart of value iv and, when it has a
\* ".", fraction digits fpart of value fv
NumValue(hasDot, ipart, fpart, iv, fv) ==
    IF ~hasDot /\ Len(ipart) > 1 /\ ipart[1] = "0" /\ iv # 0 THEN BadTok
    ELSE IF iv < 0 \/ iv > MaxAbs \/ fv < 0 \/ Len(fpart) > 4
         THEN Tok("num", <<>>, Unrep)
    ELSE IF ~hasDot THEN Tok("num", <<>>, PyInt(iv))
    ELSE Tok("num", <<>>,
             PyFloat(iv * Pow10(Len(fpart)) + fv, Pow10(Len(fpart))))

NumParts(text, hasDot, ipart, fpart) ==
    IF ~NumShape(text, ipart, fpart) THEN BadTok
    ELSE NumValue(hasDot, ipart, fpart, DigitsVal(ipart), DigitsVal(fpart))

\* the number lexeme split at its "." (at dot; Len(text) + 1 without one)
NumSplit(text, dot) ==
    NumParts(text, dot <= Len(text),
             SelectSeq(SubSeq(text, 1, dot - 1), NotUnderscore),
             SelectSeq(SubSeq(text, dot + 1, Len(text)), NotUnderscore))

NumTok(text) ==
    NumSplit(text, IF \E k \in 1..Len(text) : text[k] = "."
                   THEN CHOOSE k \in 1..Len(text) : text[k] = "."
                   ELSE Len(text) + 1)

Idle == [t |-> "", s |-> <<>>]

Lexeme(t, s) == [t |-> t, s |-> s]

LexResult(cur, emit) == [cur |-> cur, emit |-> emit]

\* the tokens of a finished lexeme
Flush(cur) ==
    CASE cur.t = ""     -> <<>>
      [] cur.t = "num"  -> <<NumTok(cur.s)>>
      [] cur.t = "name" -> <<Tok("name", cur.s, None)>>
      [] cur.t = "op"   -> <<Tok("op", cur.s, None)>>
      [] cur.t = "str"  -> <<BadTok>>

\* character c (followed by c2) read between lexemes
Start(c, c2) ==
    CASE c = " " -> LexResult(Idle, <<>>)
      [] IsDigit(c) \/ (c = "." /\ IsDigit(c2)) -> LexResult(Lexeme("num", <<c>>), <<>>)
      [] c \in Letters \cup {"_"} -> LexResult(Lexeme("name", <<c>>), <<>>)
      [] c = "'" -> LexResult(Lexeme("str", <<>>), <<>>)
      [] c \in {"*", "/"} -> LexResult(Lexeme("op", c), <<>>)
      [] c \in {"+", "-", "(", ")"} \/ (c = "." /\ ~IsDigit(c2)) ->
            LexResult(Idle, <<Tok("op", c, None)>>)
      [] OTHER -> LexResult(Idle, <<BadTok>>)

\* character c (followed by c2) read while the lexeme cur is open
Extends(cur, c) ==
    CASE cur.t = "str"  -> c # "'"
      [] cur.t = "name" -> IsWord(c)
      [] cur.t = "num"  ->
            IsWord(c) \/ (c = "." /\ \A k \in 1..Len(cur.s) : cur.s[k] # ".")
      [] OTHER -> FALSE

\* the step when character c, which alone would give next, follows cur
Continue(cur, c, next) ==
    IF cur.t = "" THEN next
    ELSE IF cur.t = "str" /\ c = "'"
         THEN LexResult(Idle, <<Tok("str", cur.s, None)>>)
    ELSE IF cur.t = "op" /\ c = cur.s
         THEN LexResult(Idle, <<Tok("op", c \o c, None)>>)
    ELSE IF Extends(cur, c)
         THEN LexResult(Lexeme(cur.t, Append(cur.s, c)), <<>>)
    ELSE LexResult(next.cur, Flush(cur) \o next.emit)

LexStep(cur, c, c2) == Continue(cur, c, Start(c, c2))

RECURSIVE Lex(_, _, _, _)
LexNext(str, i, out, r) == Lex(str, i + 1, r.cur, out \o r.emit)

Lex(str, i, cur, out) ==
    IF i > Len(str) THEN out \o Flush(cur)
    ELSE LexNext(str, i, out, LexStep(cur, str[i], CharAt(str, i + 1)))

Tokens(str) == Lex(str, 1, Idle, <<>>)

(***************************************************************************)
(* eval, line 55: the parser.  Python's expression grammar restricted to   *)
(*   sum:     term (('+' | '-') term)*                                     *)
(*   term:    factor (('*' | '/' | '//') factor)*                          *)
(*   factor:  ('+' | '-') factor | power                                   *)
(*   power:   primary ['**' factor]                                        *)
(*   primary: atom ('(' [sum] ')' | '.' NAME)*                             *)
(*   atom:    NAME | NUMBER | STRING | '(' ')' | '(' sum ')'               *)
(* An abstract syntax tree is a tuple headed by its node type.  A parse    *)
(* result is [ok, ast, i], i the index of the next token.  The rules are   *)
(* the cases of one recursive operator.                                    *)
(***************************************************************************)
NoParse == [ok |-> FALSE, ast |-> <<>>, i |-> 0]

Parsed(ast, i) == [ok |-> TRUE, ast |-> ast, i |-> i]

IsOp(ts, i, ops) == i >= 1 /\ i <= Len(ts) /\ ts[i].t = "op" /\ ts[i].s \in ops

\* the grammar rule `rule` applied at token i; `left` is the tree parsed so
\* far for the rules that extend one (trailers, term_rest, sum_rest)
RECURSIVE ParseRule(_, _, _, _)
ParseRule(rule, ts, i, left) ==
    CASE rule = "atom" ->
            IF i > Len(ts) THEN NoParse
            ELSE CASE ts[i].t = "num"  -> Parsed(<<"num", ts[i].v>>, i + 1)
                   [] ts[i].t = "name" -> Parsed(<<"name", ts[i].s>>, i + 1)
                   [] ts[i].t = "str"  -> Parsed(<<"str", ts[i].s>>, i + 1)
                   [] IsOp(ts, i, {"("}) ->
                        IF IsOp(ts, i + 1, {")"}) THEN Parsed(<<"tuple">>, i + 2)
                        ELSE LET e == ParseRule("sum", ts, i + 1, <<>>)
                             IN  IF e.ok /\ IsOp(ts, e.i, {")"})
                                 THEN Parsed(e.ast, e.i + 1) ELSE NoParse
                   [] OTHER -> NoParse
      [] rule = "trailers" ->
            CASE IsOp(ts, i, {"("}) ->
                    LET e == IF IsOp(ts, i + 1, {")"}) THEN Parsed(<<>>, i + 1)
                             ELSE ParseRule("sum", ts, i + 1, <<>>)
                        argv == IF e.ast = <<>> THEN <<>> ELSE <<e.ast>>
                    IN  IF e.ok /\ IsOp(ts, e.i, {")"})
                        THEN ParseRule("trailers", ts, e.i + 1,
                                       <<"call", left, argv>>)
                        ELSE NoParse
              [] IsOp(ts, i, {"."}) ->
                    IF i + 1 <= Len(ts) /\ ts[i + 1].t = "name"
                    THEN ParseRule("trailers", ts, i + 2,
                                   <<"attr", left, ts[i + 1].s>>)
                    ELSE NoParse
              [] OTHER -> Parsed(left, i)
      [] rule = "power" ->
            LET a == ParseRule("atom", ts, i, <<>>)
                p == IF a.ok THEN ParseRule("trailers", ts, a.i, a.ast)
                     ELSE NoParse
                f == ParseRule("factor", ts, p.i + 1, <<>>)
            IN  IF p.ok /\ IsOp(ts, p.i, {"**"})
                THEN IF f.ok THEN Parsed(<<"bin", "**", p.ast, f.ast>>, f.i)
                     ELSE NoParse
                ELSE p
      [] rule = "factor" ->
            IF IsOp(ts, i, {"+", "-"})
            THEN LET f == ParseRule("factor", ts, i + 1, <<>>)
                 IN  IF f.ok THEN Parsed(<<"unary", ts[i].s, f.ast>>, f.i)
                     ELSE NoParse
            ELSE ParseRule("power", ts, i, <<>>)
      [] rule = "term_rest" ->
            IF IsOp(ts, i, {"*", "/", "//"})
            THEN LET f == ParseRule("factor", ts, i + 1, <<>>)
                 IN  IF f.ok
                     THEN ParseRule("term_rest", ts, f.i,
                                    <<"bin", ts[i].s, left, f.ast>>)
                     ELSE NoParse
            ELSE Parsed(left, i)
      [] rule = "term" ->
            LET f == ParseRule("factor", ts, i, <<>>)
            IN  IF f.ok THEN ParseRule("term_rest", ts, f.i, f.ast) ELSE NoParse
      [] rule = "sum_rest" ->
            IF IsOp(ts, i, {"+", "-"})
            THEN LET t == ParseRule("term", ts, i + 1, <<>>)
                 IN  IF t.ok
                     THEN ParseRule("sum_rest", ts, t.i,
                                    <<"bin", ts[i].s, left, t.ast>>)
                     ELSE NoParse
            ELSE Parsed(left, i)
      [] rule = "sum" ->
            LET t == ParseRule("term", ts, i, <<>>)
            IN  IF t.ok THEN ParseRule("sum_rest", ts, t.i, t.ast) ELSE NoParse

\* compile(expression): the whole text must be one expression
WholeParse(ts, e) == IF e.ok /\ e.i = Len(ts) + 1 THEN e ELSE NoParse

ParseTokens(ts) ==
    IF \E k \in 1..Len(ts) : ts[k].t = "bad" THEN NoParse
    ELSE WholeParse(ts, ParseRule("sum", ts, 1, <<>>))

Parse(str) == ParseTokens(Tokens(str))

(***************************************************************************)
(* eval, line 55: arithmetic on Python objects.  An evaluation result is   *)
(* [err, val]: err = "" and the value, or the name of the exception.       *)
(***************************************************************************)
Ok(v) == [err |-> "", val |-> v]

Err(e) == [err |-> e, val |-> None]

IsNumeric(v) == v.kind \in {"int", "float", "real"}

MkInt(i) == IF Abs(i) > MaxAbs THEN Unrep ELSE PyInt(i)

Mk(isFloat, p, q) == IF isFloat THEN PyFloat(p, q) ELSE MkInt(p \div q)

FloorDiv(p, q) == IF q < 0 THEN (-p) \div (-q) ELSE p \div q

\* acc * b^e for b >= 0, or -1 once the product leaves the model's range
RECURSIVE PowAcc(_, _, _)
PowAcc(b, e, acc) ==
    IF e = 0 THEN acc
    ELSE IF b <= 1 THEN acc * b
    ELSE IF acc * b > MaxAbs THEN -1
    ELSE PowAcc(b, e - 1, acc * b)

\* a ** b for numbers a, b with b an integer
Power(a, b, isFloat) ==
    LET e  == Abs(b.n)
        pn == PowAcc(Abs(a.n), e, 1)
        pd == PowAcc(a.d, e, 1)
        sg == IF a.n < 0 /\ e % 2 = 1 THEN -1 ELSE 1
    IN  IF pn < 0 \/ pd < 0 THEN Unrep
        ELSE IF b.n >= 0 THEN Mk(isFloat, sg * pn, pd)
        ELSE PyFloat(sg * pd, pn)

Repeat(str, k) == [i \in 1..(Len(str) * k) |-> str[((i - 1) % Len(str)) + 1]]

\* a op b on sequences: the empty tuple and str
SeqOp(op, a, b) ==
    CASE op = "+" /\ a.kind = b.kind /\ a.kind \in {"str", "tuple"} ->
            Ok(Obj(a.kind, a.s \o b.s))
      [] op = "*" /\ a.kind \in {"str", "tuple"} /\ b.kind = "int" ->
            Ok(Obj(a.kind, IF b.n <= 0 THEN <<>> ELSE Repeat(a.s, b.n)))
      [] op = "*" /\ b.kind \in {"str", "tuple"} /\ a.kind = "int" ->
            Ok(Obj(b.kind, IF a.n <= 0 THEN <<>> ELSE Repeat(b.s, a.n)))
      [] OTHER -> Err("TypeError")

BinOp(op, a, b) ==
    LET f == a.kind = "float" \/ b.kind = "float"
    IN  IF ~IsNumeric(a) \/ ~IsNumeric(b) THEN SeqOp(op, a, b)
        ELSE IF op \in {"/", "//"} /\ IsNum(b) /\ b.n = 0
             THEN Err("ZeroDivisionError")
        ELSE IF op = "**" /\ IsNum(a) /\ a.n = 0 /\ IsNum(b) /\ b.n < 0
             THEN Err("ZeroDivisionError")
        ELSE IF ~IsNum(a) \/ ~IsNum(b) THEN Ok(Unrep)
        ELSE CASE op = "+"  -> Ok(Mk(f, a.n * b.d + b.n * a.d, a.d * b.d))
               [] op = "-"  -> Ok(Mk(f, a.n * b.d - b.n * a.d, a.d * b.d))
               [] op = "*"  -> Ok(Mk(f, a.n * b.n, a.d * b.d))
               [] op = "/"  -> Ok(PyFloat(a.n * b.d, a.d * b.n))
               [] op = "//" -> Ok(Mk(f, FloorDiv(a.n * b.d, a.d * b.n), 1))
               [] op = "**" -> IF b.d = 1 THEN Ok(Power(a, b, f)) ELSE Ok(Unrep)

UnaryOp(op, a) ==
    IF ~IsNumeric(a) THEN Err("TypeError")
    ELSE IF op = "-" /\ IsNum(a) THEN Ok([a EXCEPT !.n = -a.n])
    ELSE Ok(a)

(***************************************************************************)
(* allowed_names, lines 41-47, as a dict: the four builtins and, of the    *)
(* public names of the math module, floor, ceil and pi.                    *)
(***************************************************************************)
N_abs == <<"a", "b", "s">>

N_round == <<"r", "o", "u", "n", "d">>

N_min == <<"m", "i", "n">>

N_max == <<"m", "a", "x">>

N_floor == <<"f", "l", "o", "o", "r">>

N_ceil == <<"c", "e", "i", "l">>

N_pi == <<"p", "i">>

N_builtins == <<"b", "u", "i", "l", "t", "i", "n", "s">>

N_math == <<"m", "a", "t", "h">>

N_self == <<"_", "_", "s", "e", "l", "f", "_", "_">>

allowed_names ==
    << <<N_abs, Obj("builtin", N_abs)>>,
       <<N_round, Obj("builtin", N_round)>>,
       <<N_min, Obj("builtin", N_min)>>,
       <<N_max, Obj("builtin", N_max)>>,
       <<N_floor, Obj("builtin", N_floor)>>,
       <<N_ceil, Obj("builtin", N_ceil)>>,
       <<N_pi, Unrep>> >>

\* the characters of the model in code point order
Ascii == <<" ", "'", "(", ")", "*", "+", ",", "-", ".", "/">> \o Digits
         \o <<"<", ">", "_",
              "a", "b", "c", "d", "e", "f", "g", "h", "i", "j", "k", "l", "m",
              "n", "o", "p", "q", "r", "s", "t", "u", "v", "w", "x", "y", "z">>

Ord(c) == CHOOSE i \in 1..Len(Ascii) : Ascii[i] = c

\* the largest (or smallest) character of a non-empty str
Extreme(str, largest) ==
    LET cs == {str[i] : i \in 1..Len(str)}
    IN  CHOOSE c \in cs : \A e \in cs :
            IF largest THEN Ord(e) <= Ord(c) ELSE Ord(c) <= Ord(e)

\* the builtin called with the evaluated arguments (none or one)
CallBuiltin(name, argv) ==
    IF Len(argv) # 1 THEN Err("TypeError")
    ELSE LET a == argv[1]
         IN  CASE name \in {N_min, N_max} ->
                    \* min and max iterate their single argument
                    IF a.kind \in {"tuple", "str"} /\ a.s = <<>>
                    THEN Err("ValueError")
                    ELSE IF a.kind = "str"
                         THEN Ok(Obj("str", <<Extreme(a.s, name = N_max)>>))
                    ELSE Err("TypeError")
               [] name \notin {N_min, N_max} /\ ~IsNumeric(a) -> Err("TypeError")
               [] name \notin {N_min, N_max} /\ a.kind = "real" -> Ok(Unrep)
               [] name = N_abs /\ IsNum(a) -> Ok([a EXCEPT !.n = Abs(a.n)])
               [] name = N_floor /\ IsNum(a) -> Ok(MkInt(a.n \div a.d))
               [] name = N_ceil /\ IsNum(a) -> Ok(MkInt(-((-a.n) \div a.d)))
               [] name = N_round /\ IsNum(a) ->
                    \* round half to even
                    LET fl == a.n \div a.d
                        r2 == 2 * (a.n - fl * a.d)
                    IN  Ok(MkInt(IF r2 > a.d \/ (r2 = a.d /\ fl % 2 = 1)
                                 THEN fl + 1 ELSE fl))

GetAttr(v, name) ==
    IF name = N_self /\ v.kind = "builtin"
    THEN Ok(Obj("module", IF v.s \in {N_floor, N_ceil} THEN N_math
                          ELSE N_builtins))
    ELSE Err("AttributeError")

(***************************************************************************)
(* eval, line 55: evaluation of the tree in the namespace env.  Of the     *)
(* attributes of the modelled objects only __self__ is modelled.  A name   *)
(* that env lacks is looked up in __builtins__, which is None (line 50):   *)
(* the lookup raises TypeError.                                            *)
(***************************************************************************)
\* mutant: a name the namespace lacks evaluates to a default value
NameLookup_Default(env, id) ==
    IF HasKey(env, id) THEN Ok(Lookup(env, id)) ELSE Ok(PyInt(0))

NameLookup(env, id) ==
    IF HasKey(env, id) THEN Ok(Lookup(env, id)) ELSE Err("TypeError")

RECURSIVE Evaluate(_, _)
Evaluate(ast, env) ==
    CASE ast[1] = "num"   -> Ok(ast[2])
      [] ast[1] = "str"   -> Ok(Obj("str", ast[2]))
      [] ast[1] = "tuple" -> Ok(Obj("tuple", <<>>))
      [] ast[1] = "name"  -> NameLookup(env, ast[2])
      [] ast[1] = "unary" ->
            LET a == Evaluate(ast[3], env)
            IN  IF a.err # "" THEN a ELSE UnaryOp(ast[2], a.val)
      [] ast[1] = "bin"   ->
            LET a == Evaluate(ast[3], env)
                b == Evaluate(ast[4], env)
            IN  IF a.err # "" THEN a
                ELSE IF b.err # "" THEN b
                ELSE BinOp(ast[2], a.val, b.val)
      [] ast[1] = "call"  ->
            LET f == Evaluate(ast[2], env)
                a == IF ast[3] = <<>> THEN Ok(None) ELSE Evaluate(ast[3][1], env)
            IN  IF f.err # "" THEN f
                ELSE IF a.err # "" THEN a
                ELSE IF f.val.kind # "builtin" THEN Err("TypeError")
                ELSE CallBuiltin(f.val.s,
                                 IF ast[3] = <<>> THEN <<>> ELSE <<a.val>>)
      [] ast[1] = "attr"  ->
            LET a == Evaluate(ast[2], env)
            IN  IF a.err # "" THEN a ELSE GetAttr(a.val, ast[3])

\* eval(expression, safe_env, {}): SyntaxError or the evaluation
EvalParsed(p, env) ==
    IF ~p.ok THEN Err("SyntaxError") ELSE Evaluate(p.ast, env)

Eval(str, env) == EvalParsed(Parse(str), env)

(***************************************************************************)
(* restricted_eval as a whole, lines 30-61: its outcome is                 *)
(*   "raised"   an exception leaves the function (KeyError of line 36),    *)
(*   "exited"   the diagnostic is printed and sys.exit() is called,        *)
(*   "returned" the value of the substituted expression.                   *)
(***************************************************************************)
Diagnostic(err, str) == [error |-> err, expression |-> str]

\* lines 53-61: the outcome for the evaluation result ev of the text
Evaluated(text, ev) ==
    IF ev.err # ""
    THEN [outcome |-> "exited", val |-> None, text |-> text, err |-> ev.err]
    ELSE [outcome |-> "returned", val |-> ev.val, text |-> text, err |-> ""]

\* lines 38-61: the outcome after the substitution sub
Substituted(sub) ==
    IF sub.raised
    THEN [outcome |-> "raised", val |-> None, text |-> <<>>, err |-> "KeyError"]
    ELSE Evaluated(sub.text, Eval(sub.text, allowed_names))

restricted_eval(str, vs) == Substituted(Sub(str, vs))

(***************************************************************************)
(* Inputs of the direct calls of restricted_eval.                          *)
(***************************************************************************)
ImportExpr == <<"_", "_", "i", "m", "p", "o", "r", "t", "_", "_",
                "(", "'", "o", "s", "'", ")">>

Pieces == { <<"a">>, <<"2">>, N_abs, <<"(">>, <<")">>, <<"-">>,
            <<"*", "*">>, <<"/", "/">>, <<".">> \o N_self }

RECURSIVE PieceSeqs(_)
PieceSeqs(k) ==
    IF k = 0 THEN { <<>> }
    ELSE LET shorter == PieceSeqs(k - 1)
         IN  shorter \cup {e \o p : e \in {h \in shorter : Len(h) > 0 \/ k = 1},
                                    p \in Pieces}

\* longer expressions over the same names: abs(a), abs(a-a2), (a)**2, a2-a
Examples ==
    { ImportExpr,
      <<"a", "b", "s", "(", "a", ")">>,
      <<"a", "b", "s", "(", "a", "-", "a", "2", ")">>,
      <<"(", "a", ")", "*", "*", "2">>,
      <<"a", "2", "-", "a">> }

Exprs == PieceSeqs(MaxPieces) \cup Examples

Names == { <<"a">>, <<"a", "2">> }

Values == { PyInt(-2), PyInt(0), PyInt(3) }

\* the dicts over Names, in every insertion order
Mappings ==
    { <<>> }
    \cup { << <<k, v>> >> : k \in Names, v \in Values }
    \cup { m \in { << <<k1, v1>>, <<k2, v2>> >> :
                     k1 \in Names, k2 \in Names, v1 \in Values, v2 \in Values } :
             m[1][1] # m[2][1] }

NoArgs == [expression |-> <<>>, variables |-> <<>>]

NoFuncs == [x_pos |-> <<>>, y_pos |-> <<>>, x_scale |-> <<>>, y_scale |-> <<>>]

(***************************************************************************)
(* A caller invokes restricted_eval(expression, variables).                *)
(***************************************************************************)
Init ==
    /\ pc = "call"
    /\ args \in [expression : Exprs, variables : Mappings]
    /\ expression = args.expression
    /\ variables = args.variables
    /\ result = None
    /\ stdout = <<>>
    /\ surface = <<0, 0>>
    /\ surface_name = <<>>
    /\ funcs = NoFuncs
    /\ x_scale = None /\ y_scale = None /\ x = None /\ y = None
    /\ evaluated = <<>>
    /\ ret = <<>>

placement_vars == <<surface, surface_name, funcs, x_scale, y_scale, x, y,
                    evaluated, ret>>

\* line 38: the substituted text is assigned, unless replace_var raised
Substitution(sub) ==
    IF sub.raised
    THEN /\ pc' = "raised"
         /\ UNCHANGED expression
    ELSE /\ pc' = "eval"
         /\ expression' = sub.text

\* lines 30-38: compile the pattern and substitute
Substitute ==
    /\ pc = "call"
    /\ Substitution(Sub(expression, variables))
    /\ UNCHANGED <<args, variables, result, stdout, placement_vars>>

\* lines 53-55 and 61: the evaluation succeeds and its value is returned
EvalReturn ==
    /\ pc = "eval"
    /\ Eval(expression, allowed_names).err = ""
    /\ result' = Eval(expression, allowed_names).val
    /\ pc' = "returned"
    /\ UNCHANGED <<args, expression, variables, stdout, placement_vars>>

\* mutant: a failed evaluation is swallowed and a default value returned
EvalFail_ReturnsDefault ==
    /\ pc = "eval"
    /\ Eval(expression, allowed_names).err # ""
    /\ result' = PyInt(0)
    /\ pc' = "returned"
    /\ UNCHANGED <<args, expression, variables, stdout, placement_vars>>

\* lines 56-57: the evaluation raises and the diagnostic is printed
EvalFail ==
    /\ pc = "eval"
    /\ Eval(expression, allowed_names).err # ""
    /\ stdout' = Append(stdout, Diagnostic(Eval(expression, allowed_names).err,
                                           expression))
    /\ pc' = "printed"
    /\ UNCHANGED <<args, expression, variables, result, placement_vars>>

\* lines 58-59: pygame.quit(); sys.exit()
Exit ==
    /\ pc = "printed"
    /\ pc' = "exited"
    /\ UNCHANGED <<args, expression, variables, result, stdout, placement_vars>>

Next == Substitute \/ EvalReturn \/ EvalFail \/ Exit

Spec == Init /\ [][Next]_vars

(***************************************************************************)
(* get_scale_and_position_as_function_of_pygame_surface_dimensions,        *)
(* lines 63-117.                                                           *)
(***************************************************************************)
N_surface == <<"s", "u", "r", "f", "a", "c", "e">>

N_width == <<"_", "w", "i", "d", "t", "h">>

N_height == <<"_", "h", "e", "i", "g", "h", "t">>

N_x_scale == <<"x", "_", "s", "c", "a", "l", "e">>

N_y_scale == <<"y", "_", "s", "c", "a", "l", "e">>

SurfaceNames == { N_surface, <<"s">> }

SurfaceDims == { <<800, 600>>, <<8, 0>> }

\* surface_width/100, x_scale*10, y_scale-x_scale, surface_height/2, 1,
\* 6/surface_height, s_width
PlacementExprs ==
    { N_surface \o N_width \o <<"/", "1", "0", "0">>,
      N_x_scale \o <<"*", "1", "0">>,
      N_y_scale \o <<"-">> \o N_x_scale,
      N_surface \o N_height \o <<"/", "2">>,
      <<"1">>,
      <<"6", "/">> \o N_surface \o N_height,
      <<"s">> \o N_width }

InitPlacement ==
    /\ pc = "place"
    /\ surface \in SurfaceDims
    /\ surface_name \in SurfaceNames
    /\ funcs \in [x_pos : PlacementExprs, y_pos : PlacementExprs,
                  x_scale : PlacementExprs, y_scale : PlacementExprs]
    /\ args = NoArgs
    /\ expression = <<>>
    /\ variables = <<>>
    /\ result = None
    /\ stdout = <<>>
    /\ x_scale = None /\ y_scale = None /\ x = None /\ y = None
    /\ evaluated = <<>>
    /\ ret = <<>>

\* lines 96-103: read the dimensions and build the dict
BuildVariables ==
    /\ pc = "place"
    /\ variables' = << <<surface_name \o N_width, PyInt(surface[1])>>,
                       <<surface_name \o N_height, PyInt(surface[2])>> >>
    /\ pc' = "x_scale"
    /\ UNCHANGED <<args, expression, result, stdout, surface, surface_name,
                   funcs, x_scale, y_scale, x, y, evaluated, ret>>

\* mutant: a call that does not return is ignored and the program goes on
CallEffects_Continue(fn, str, vs, r, next) ==
    /\ evaluated' = Append(evaluated, [fn |-> fn, expression |-> str,
                                       variables |-> vs,
                                       outcome |-> r.outcome])
    /\ stdout' = IF r.outcome = "exited"
                 THEN Append(stdout, Diagnostic(r.err, r.text)) ELSE stdout
    /\ pc' = next

\* the effects of one call r = restricted_eval(str, vs) other than the
\* assignment of its value: the call is recorded, and a call that does not
\* return ends the program
CallEffects(fn, str, vs, r, next) ==
    /\ evaluated' = Append(evaluated, [fn |-> fn, expression |-> str,
                                       variables |-> vs,
                                       outcome |-> r.outcome])
    /\ stdout' = IF r.outcome = "exited"
                 THEN Append(stdout, Diagnostic(r.err, r.text)) ELSE stdout
    /\ pc' = IF r.outcome = "returned" THEN next ELSE r.outcome

\* x_scale = r, the outcome of restricted_eval(x_scale_function, variables)
XScaleCall(r) ==
    /\ CallEffects("x_scale", funcs.x_scale, variables, r, "y_scale")
    /\ x_scale' = IF r.outcome = "returned" THEN r.val ELSE x_scale

\* line 106
EvalXScale ==
    /\ pc = "x_scale"
    /\ XScaleCall(restricted_eval(funcs.x_scale, variables))
    /\ UNCHANGED <<args, expression, variables, result, surface, surface_name,
                   funcs, y_scale, x, y, ret>>

\* y_scale = r, the outcome of restricted_eval(y_scale_function, vs)
YScaleCall(vs, r) ==
    /\ CallEffects("y_scale", funcs.y_scale, vs, r, "bind")
    /\ y_scale' = IF r.outcome = "returned" THEN r.val ELSE y_scale

\* mutant: y_scale is evaluated with x_scale already bound
EvalYScale_SeesXScale ==
    /\ pc = "y_scale"
    /\ YScaleCall(SetItem(variables, N_x_scale, x_scale),
                  restricted_eval(funcs.y_scale,
                                  SetItem(variables, N_x_scale, x_scale)))
    /\ UNCHANGED <<args, expression, variables, result, surface, surface_name,
                   funcs, x_scale, x, y, ret>>

\* line 107
EvalYScale ==
    /\ pc = "y_scale"
    /\ YScaleCall(variables, restricted_eval(funcs.y_scale, variables))
    /\ UNCHANGED <<args, expression, variables, result, surface, surface_name,
                   funcs, x_scale, x, y, ret>>

\* mutant: the two scales are bound under each other's name
BindScales_Swapped ==
    /\ pc = "bind"
    /\ variables' = SetItem(SetItem(variables, N_x_scale, y_scale),
                            N_y_scale, x_scale)
    /\ pc' = "x_pos"
    /\ UNCHANGED <<args, expression, result, stdout, surface, surface_name,
                   funcs, x_scale, y_scale, x, y, evaluated, ret>>

\* lines 110-111
BindScales ==
    /\ pc = "bind"
    /\ variables' = SetItem(SetItem(variables, N_x_scale, x_scale),
                            N_y_scale, y_scale)
    /\ pc' = "x_pos"
    /\ UNCHANGED <<args, expression, result, stdout, surface, surface_name,
                   funcs, x_scale, y_scale, x, y, evaluated, ret>>

\* x = r, the outcome of restricted_eval(x_pos_function, variables)
XPosCall(r) ==
    /\ CallEffects("x_pos", funcs.x_pos, variables, r, "y_pos")
    /\ x' = IF r.outcome = "returned" THEN r.val ELSE x

\* line 114
EvalXPos ==
    /\ pc = "x_pos"
    /\ XPosCall(restricted_eval(funcs.x_pos, variables))
    /\ UNCHANGED <<args, expression, variables, result, surface, surface_name,
                   funcs, x_scale, y_scale, y, ret>>

\* y = r, the outcome of restricted_eval(y_pos_function, variables)
YPosCall(r) ==
    /\ CallEffects("y_pos", funcs.y_pos, variables, r, "return")
    /\ y' = IF r.outcome = "returned" THEN r.val ELSE y

\* line 115
EvalYPos ==
    /\ pc = "y_pos"
    /\ YPosCall(restricted_eval(funcs.y_pos, variables))
    /\ UNCHANGED <<args, expression, variables, result, surface, surface_name,
                   funcs, x_scale, y_scale, x, ret>>

\* line 117
Return ==
    /\ pc = "return"
    /\ ret' = <<x, y, x_scale, y_scale>>
    /\ pc' = "returned"
    /\ UNCHANGED <<args, expression, variables, result, stdout, surface,
                   surface_name, funcs, x_scale, y_scale, x, y, evaluated>>

NextPlacement ==
    \/ BuildVariables
    \/ EvalXScale
    \/ EvalYScale
    \/ BindScales
    \/ EvalXPos
    \/ EvalYPos
    \/ Return

SpecPlacement == InitPlacement /\ [][NextPlacement]_vars

(***************************************************************************)
(* Properties.                                                             *)
(***************************************************************************)
KeySet(vs) == {vs[i][1] : i \in 1..Len(vs)}

AllowedKeys == KeySet(allowed_names)

Terminal == pc \in {"returned", "exited", "raised"}

\* the names an expression references: its name tokens other than the
\* attribute names that follow a dot
NameRefs(str) ==
    LET ts == Tokens(str)
    IN  {ts[i].s : i \in {j \in 1..Len(ts) :
                            ts[j].t = "name" /\ ~IsOp(ts, j - 1, {"."})}}

UsesAttribute(str) ==
    LET ts == Tokens(str)
    IN  \E j \in 1..Len(ts) : IsOp(ts, j, {"."})

\* substitution stated on words: every maximal run of word characters that
\* is a key is replaced by str(value), everything else is kept
RECURSIVE WordSubst(_, _, _)
WordSubst(str, i, vs) ==
    IF i > Len(str) THEN <<>>
    ELSE IF IsWord(str[i])
         THEN LET e == WordEnd(str, i)
                  w == Slice(str, i, e)
              IN  (IF HasKey(vs, w) THEN Str(Lookup(vs, w)) ELSE w)
                  \o WordSubst(str, e + 1, vs)
         ELSE <<str[i]>> \o WordSubst(str, i + 1, vs)

Reverse(q) == [i \in 1..Len(q) |-> q[Len(q) + 1 - i]]

\* C1: for every mapping V and expression E over names of V and allowed
\* functions that denotes a number when each name stands for its value,
\* restricted_eval(E, V) returns that number.  Stated for the mappings that
\* hold at least one variable, negative values included.
C1_EvaluateDenotesValue ==
    LET E   == args.expression
        V   == args.variables
        p   == Parse(E)
        ref == Evaluate(p.ast, V \o allowed_names)
    IN  (/\ Terminal
         /\ V # <<>>
         /\ p.ok
         /\ ~UsesAttribute(E)
         /\ NameRefs(E) \subseteq KeySet(V) \cup AllowedKeys
         /\ ref.err = ""
         /\ IsNum(ref.val))
        => (pc = "returned" /\ result = ref.val)

\* C2: with a non-empty mapping the substituted expression is the original
\* one with every whole-word occurrence of a key replaced by str(value) and
\* every other character, keys inside longer identifiers included, kept.
C2_WordBounded ==
    (args.variables # <<>> /\ pc # "call")
    => (/\ pc # "raised"
        /\ expression = WordSubst(args.expression, 1, args.variables))

\* C2 witness: a is replaced as a word and kept inside abs
C2_Witness ==
    /\ pc = "eval"
    /\ args.expression = <<"a", "b", "s", "-", "a">>
    /\ args.variables = << <<<<"a">>, PyInt(3)>> >>
    /\ expression = <<"a", "b", "s", "-", "3">>

\* C3: an expression that performs an attribute access never yields a value.
C3_NoAttributeAccess == pc = "returned" => ~UsesAttribute(expression)

C6_ImportExitsThroughFailurePath ==
    (args.expression = ImportExpr /\ args.variables = <<>> /\ Terminal)
    => (pc = "exited" /\ Len(stdout) = 1 /\ stdout[1].expression = ImportExpr)

\* C10: the substituted expression does not depend on the iteration order of
\* the mapping, and an expression that is exactly one key becomes str of
\* that key's value, also when one key is a prefix of another.
C10_OrderIndependent ==
    (Len(args.variables) >= 2 /\ pc # "call")
    => LET r == Sub(args.expression, Reverse(args.variables))
       IN  /\ pc # "raised"
           /\ ~r.raised
           /\ expression = r.text
           /\ HasKey(args.variables, args.expression)
                => expression = Str(Lookup(args.variables, args.expression))

\* C10 witness: a is listed before a2 and the expression uses both
C10_Witness ==
    /\ pc = "eval"
    /\ args.expression = <<"a", "2", "-", "a">>
    /\ args.variables = << <<<<"a">>, PyInt(3)>>, <<<<"a", "2">>, PyInt(-2)>> >>
    /\ expression = <<"-", "2", "-", "3">>

(***************************************************************************)
(* Properties of the placement call.                                       *)
(***************************************************************************)
CallOrder == <<"x_scale", "y_scale", "x_pos", "y_pos">>

BaseDict == << <<surface_name \o N_width, PyInt(surface[1])>>,
               <<surface_name \o N_height, PyInt(surface[2])>> >>

\* C7: the two scale expressions are evaluated before the position ones,
\* the position expressions see x_scale and y_scale bound to the values of
\* the scale expressions, and the tuple returned is (x, y, x_scale, y_scale).
C7_ScaleBeforePosition ==
    LET xs   == restricted_eval(funcs.x_scale, BaseDict)
        ys   == restricted_eval(funcs.y_scale, BaseDict)
        full == BaseDict \o << <<N_x_scale, xs.val>>, <<N_y_scale, ys.val>> >>
    IN  /\ Len(evaluated) <= 4
        /\ \A i \in 1..Len(evaluated) : evaluated[i].fn = CallOrder[i]
        /\ \A i \in 3..Len(evaluated) :
              /\ xs.outcome = "returned" /\ ys.outcome = "returned"
              /\ evaluated[i].variables = full
              /\ x_scale = xs.val /\ y_scale = ys.val
        /\ pc = "returned"
             => /\ Len(evaluated) = 4
                /\ ret = <<restricted_eval(funcs.x_pos, full).val,
                           restricted_eval(funcs.y_pos, full).val,
                           xs.val, ys.val>>

\* C7 witness: x_scale = surface_width/100 is visible to x_pos = x_scale*10
C7_Witness ==
    /\ pc = "returned"
    /\ surface = <<800, 600>>
    /\ funcs.x_scale = N_surface \o N_width \o <<"/", "1", "0", "0">>
    /\ funcs.x_pos = N_x_scale \o <<"*", "1", "0">>
    /\ ret[3] = PyFloat(8, 1)
    /\ ret[1] = PyFloat(80, 1)

\* C8: an evaluation that fails is the last one made: the process exits
\* there, the later expressions are never evaluated and no tuple is returned.
C8_FailureStopsPlacement ==
    \A i \in 1..Len(evaluated) :
        evaluated[i].outcome # "returned"
        => /\ i = Len(evaluated)
           /\ pc = "exited"
           /\ ret = <<>>
           /\ stdout # <<>>
           /\ \A j \in i..4 : <<x_scale, y_scale, x, y>>[j] = None

\* C8 witness: both scales were computed and x_pos failed
C8_Witness ==
    /\ pc = "exited"
    /\ Len(evaluated) = 3
    /\ evaluated[3].outcome = "exited"
    /\ x_scale # None /\ y_scale # None

\* C9: x_scale_expr is evaluated first, then y_scale_expr, both against the
\* dict of the two dimensions only; a y_scale_expr that names x_scale finds
\* it undefined.
C9_ScalesSeeOnlyDimensions ==
    /\ \A i \in 1..Len(evaluated) :
          i <= 2 => /\ evaluated[i].fn = CallOrder[i]
                    /\ evaluated[i].variables = BaseDict
    /\ (Len(evaluated) >= 2 /\ N_x_scale \in NameRefs(funcs.y_scale))
         => (evaluated[2].outcome = "exited" /\ y_scale = None)

\* C9 witness: x_scale was computed, y_scale_expr = x_scale*10 failed
C9_Witness ==
    /\ pc = "exited"
    /\ Len(evaluated) = 2
    /\ evaluated[1].outcome = "returned"
    /\ funcs.y_scale = N_x_scale \o <<"*", "1", "0">>

====
